---- MODULE Spec2Model ----
(***************************************************************************)
(* Model of kompress: the path-tree builder walk_paths (utils.py), the     *)
(* tar-backed virtual path TarPath (tar.py), the zip-backed virtual path   *)
(* ZipPath (zip.py / __init__.py) and the CPath facade (__init__.py).      *)
(*                                                                         *)
(* A Python str is modelled as a sequence of one-character strings, so     *)
(* that splitting, prefix tests and the code-point order used by sort()    *)
(* are computed and not assumed.                                           *)
(***************************************************************************)
EXTENDS Integers, Sequences, FiniteSets, TLC

\* ------------------------------------------------------------------------
\* Strings
\* ------------------------------------------------------------------------

\* code points of the characters used by the model
Ord(c) ==
    CASE c = "." -> 46
      [] c = "/" -> 47
      [] c = "a" -> 97
      [] c = "b" -> 98
      [] c = "h" -> 104
      [] OTHER   -> 0

\* Python's str.__lt__ : lexicographic on code points
RECURSIVE StrLess(_, _)
StrLess(s, t) ==
    IF t = <<>> THEN FALSE
    ELSE IF s = <<>> THEN TRUE
    ELSE IF Ord(Head(s)) < Ord(Head(t)) THEN TRUE
    ELSE IF Ord(Head(s)) > Ord(Head(t)) THEN FALSE
    ELSE StrLess(Tail(s), Tail(t))

\* list.sort() on a list of str
SortStrs(l) == SortSeq(l, StrLess)

\* str.startswith
StartsWith(s, pre) ==
    /\ Len(pre) <= Len(s)
    /\ SubSeq(s, 1, Len(pre)) = pre

\* index of the last separator of p, 0 when there is none
LastSep(p, separator) ==
    LET I == {i \in 1..Len(p) : p[i] = separator}
    IN  IF I = {} THEN 0 ELSE CHOOSE i \in I : \A j \in I : j <= i

\* p.rsplit(separator, maxsplit=1)
RSplit1(p, separator) ==
    LET k == LastSep(p, separator)
    IN  IF k = 0 THEN <<p>>
        ELSE <<SubSeq(p, 1, k - 1), SubSeq(p, k + 1, Len(p))>>

\* x is a leading part of y (sequences)
IsPrefixSeq(x, y) == Len(x) <= Len(y) /\ SubSeq(y, 1, Len(x)) = x

\* a name that ends in the separator '/'
IsDirAt(at) == at # <<>> /\ at[Len(at)] = "/"

RECURSIVE Flatten(_)
Flatten(ss) == IF ss = <<>> THEN <<>> ELSE Head(ss) \o Flatten(Tail(ss))

SeqToSet(s) == {s[i] : i \in 1..Len(s)}

\* number of occurrences of x in the sequence s
Count(s, x) == Cardinality({i \in 1..Len(s) : s[i] = x})

\* ------------------------------------------------------------------------
\* Bounds and input universe
\* ------------------------------------------------------------------------

\* longest member list handed to walk_paths
MaxLen == 3

\* member paths the lists are drawn from (a directory ends in the separator)
MemberPaths ==
    { <<"a", "/">>,
      <<"a", ".", "/">>,
      <<"b", "/">>,
      <<"a", "/", "a", "/">>,
      <<"a", "/", "b">>,
      <<"a", "/", "a", "/", "b">>,
      <<"a", ".", "/", "b">>,
      <<"b">> }

RECURSIVE SeqsUpTo(_, _)
SeqsUpTo(S, n) ==
    IF n = 0 THEN {<<>>}
    ELSE LET R == SeqsUpTo(S, n - 1)
         IN  R \cup {Append(r, x) : r \in {q \in R : Len(q) = n - 1}, x \in S}

\* ------------------------------------------------------------------------
\* walk_paths: the builder loop (utils.py 22-61)
\* ------------------------------------------------------------------------

RootName == <<".">>

\* the separator of member paths inside an archive
SEP == "/"

\* Entry = (root, [(dirname, entry)], [filename]); a child entry is referred
\* to by its position in the stack, where every entry is appended exactly once
NewEntry(root) == [root |-> root, dirs |-> <<>>, files |-> <<>>]

InitBuild == [stack |-> <<NewEntry(RootName)>>, stack_pos |-> 1, status |-> "ok"]

\* the while loop of lines 46-51: the highest position <= stack_pos whose
\* root is target_root, 0 when the search runs off the stack (assert fails)
FindParent(stack, stack_pos, target_root) ==
    LET K == {k \in 1..stack_pos : stack[k].root = target_root}
    IN  IF K = {} THEN 0 ELSE CHOOSE k \in K : \A j \in K : j <= k

\* one iteration of `for p in paths`
BuildStep(b, p, separator) ==
    LET split    == RSplit1(p, separator)
        p_parent == IF Len(split) = 1 THEN RootName ELSE split[1]
        p_name   == IF Len(split) = 1 THEN split[1] ELSE split[2]
        is_dir   == p_name = <<>>
        split2   == RSplit1(p_parent, separator)
        target_root == IF is_dir
                       THEN (IF Len(split2) = 1 THEN RootName ELSE split2[1])
                       ELSE p_parent
        dirname  == IF Len(split2) = 1 THEN split2[1] ELSE split2[2]
        k        == FindParent(b.stack, b.stack_pos, target_root)
    IN  IF b.status # "ok" THEN b
        ELSE IF k = 0 THEN [b EXCEPT !.status = "AssertionError"]
        ELSE IF is_dir
        THEN LET n == Len(b.stack) + 1
             IN  [b EXCEPT !.stack = Append(
                               [b.stack EXCEPT ![k].dirs = Append(@, <<dirname, n>>)],
                               NewEntry(p_parent)),
                           !.stack_pos = n]
        ELSE [b EXCEPT !.stack = [b.stack EXCEPT ![k].files = Append(@, p_name)],
                       !.stack_pos = k]

\* the whole loop
RECURSIVE BuildFrom(_, _, _)
BuildFrom(b, paths, separator) ==
    IF paths = <<>> THEN b
    ELSE BuildFrom(BuildStep(b, Head(paths), separator), Tail(paths), separator)

Build(paths, separator) == BuildFrom(InitBuild, paths, separator)

\* ------------------------------------------------------------------------
\* walk_paths: the traversal generator _traverse (utils.py 63-76)
\* ------------------------------------------------------------------------

\* the strings of a set in sorted order
RECURSIVE SortedSeqOfSet(_)
SortedSeqOfSet(S) ==
    IF S = {} THEN <<>>
    ELSE LET m == CHOOSE x \in S : \A y \in S : y = x \/ StrLess(x, y)
         IN  <<m>> \o SortedSeqOfSet(S \ {m})

\* child_dirs = dict(dir_entries): a later pair with the same name wins
ChildDir(entry, d) ==
    LET I == {i \in 1..Len(entry.dirs) : entry.dirs[i][1] = d}
    IN  entry.dirs[CHOOSE i \in I : \A j \in I : j <= i][2]

\* the keys of child_dirs in insertion order, the sort of line 68 left out
RECURSIVE DedupeNames(_, _)
DedupeNames(ds, seen) ==
    IF ds = <<>> THEN <<>>
    ELSE IF Head(ds)[1] \in seen THEN DedupeNames(Tail(ds), seen)
    ELSE <<Head(ds)[1]>> \o DedupeNames(Tail(ds), seen \cup {Head(ds)[1]})

DirNames_Unsorted(entry) == DedupeNames(entry.dirs, {})

\* dirnames = list(child_dirs.keys()); dirnames.sort()
DirNames(entry) ==
    SortedSeqOfSet({entry.dirs[i][1] : i \in 1..Len(entry.dirs)})

\* the triple yielded on entering _traverse(stack[e]); `entry` names the
\* entry the triple belongs to
Triple(stack, e) ==
    [root  |-> stack[e].root,
     dirs  |-> DirNames(stack[e]),
     files |-> SortStrs(stack[e].files),
     entry |-> e]

\* a suspended _traverse call: its entry, its dirnames list (the very list
\* that was yielded) and the position of its `for d in dirnames` iterator
NewFrame(stack, e) == [entry |-> e, dirnames |-> DirNames(stack[e]), pos |-> 1]

\* the loop iterating the entry's own directories instead of the yielded list
LoopNames_DirEntries(stack, frame) == DirNames(stack[frame.entry])

\* which list the loop of line 73 iterates
LoopNames(stack, frame) == frame.dirnames

\* resuming the generator: finished calls return to their caller until some
\* loop has a next name; <<>> when the outermost call returns
RECURSIVE Resume(_, _)
Resume(stack, frames) ==
    IF frames = <<>> THEN <<>>
    ELSE LET n     == Len(frames)
             top   == frames[n]
             names == LoopNames(stack, top)
         IN  IF top.pos <= Len(names)
             THEN Append([frames EXCEPT ![n].pos = @ + 1],
                         NewFrame(stack, ChildDir(stack[top.entry], names[top.pos])))
             ELSE Resume(stack, SubSeq(frames, 1, n - 1))

\* list.remove(d): drops the first occurrence
RemoveFirst(l, d) ==
    LET I == {i \in 1..Len(l) : l[i] = d}
        k == CHOOSE i \in I : \A j \in I : i <= j
    IN  SubSeq(l, 1, k - 1) \o SubSeq(l, k + 1, Len(l))

\* list(walk_paths(paths, separator)) with a consumer that never touches dirs
RECURSIVE Drain(_, _, _)
Drain(stack, frames, acc) ==
    IF frames = <<>> THEN acc
    ELSE Drain(stack, Resume(stack, frames),
               Append(acc, Triple(stack, frames[Len(frames)].entry)))

WalkAll(stack) == Drain(stack, <<NewFrame(stack, 1)>>, <<>>)

\* ------------------------------------------------------------------------
\* TarPath: building the index (tar.py 159-208)
\* ------------------------------------------------------------------------

\* most members of a tar archive
MaxMembers == 3

\* deepest relative path reached by division
MaxDepth == 3

\* the members (TarInfo: name and type) the archives are made of; tarfile
\* reports a directory's name without a trailing separator
File(name) == [name |-> name, isdir |-> FALSE]
Dir(name)  == [name |-> name, isdir |-> TRUE]

TarMembers ==
    { Dir(<<"a">>),
      File(<<"a", "/", "b">>),
      Dir(<<"a", "/", "a">>),
      File(<<"b">>),
      Dir(<<".">>),
      File(<<".", "/", "h">>) }

\* the TarInfo made up for the root, lines 189-190
RootInfo == Dir(<<>>)

\* lines 172-174: the member that is the root itself is left out
Skipped(m) == m.name = <<".">>

\* norm_name cut after the dot only, the separator left in front
NormName_StripDotOnly(m) ==
    IF StartsWith(m.name, <<".", "/">>) THEN SubSeq(m.name, 2, Len(m.name))
    ELSE m.name

\* lines 171-177: norm_name of a member that is not skipped
NormName(m) ==
    IF StartsWith(m.name, <<".", "/">>) THEN SubSeq(m.name, 3, Len(m.name))
    ELSE m.name

\* lines 166-181: paths
RECURSIVE TarPaths(_, _)
TarPaths(members, sep) ==
    IF members = <<>> THEN <<>>
    ELSE LET m == Head(members)
         IN  (IF Skipped(m) THEN <<>>
              ELSE <<NormName(m) \o (IF m.isdir THEN <<sep>> ELSE <<>>)>>)
             \o TarPaths(Tail(members), sep)

\* lines 167-181: infos[p], a later member of the same name wins
InfoOf(members, p) ==
    LET I == {i \in 1..Len(members) : ~Skipped(members[i]) /\ NormName(members[i]) = p}
    IN  members[CHOOSE i \in I : \A j \in I : j <= i]

\* nodes is a dict: a sequence of (key, node) in insertion order, a node being
\* its TarInfo and the keys of its children
HasKey(nodes, key) == \E i \in 1..Len(nodes) : nodes[i].key = key

KeyIndex(nodes, key) == CHOOSE i \in 1..Len(nodes) : nodes[i].key = key

\* get_node, lines 185-198
GetNode(nodes, members, p) ==
    IF HasKey(nodes, p) THEN nodes
    ELSE Append(nodes, [key      |-> p,
                        info     |-> IF p = RootName THEN RootInfo ELSE InfoOf(members, p),
                        children |-> <<>>])

\* lines 203-205 for one triple: the children of r in the order dirs + files
RECURSIVE AddChildren(_, _, _, _, _)
AddChildren(nodes, members, r, prefix, xs) ==
    IF xs = <<>> THEN nodes
    ELSE LET ckey == prefix \o Head(xs)
             n1   == GetNode(nodes, members, ckey)
             n2   == [n1 EXCEPT ![KeyIndex(n1, r)].children = Append(@, ckey)]
         IN  AddChildren(n2, members, r, prefix, Tail(xs))

\* the children listed with the files before the directories
ChildOrder_FilesFirst(t) == t.files \o t.dirs

\* the order in which line 203 lists the children of a directory
ChildOrder(t) == t.dirs \o t.files

\* lines 200-205
RECURSIVE IndexTriples(_, _, _, _)
IndexTriples(nodes, members, triples, sep) ==
    IF triples = <<>> THEN nodes
    ELSE LET t      == Head(triples)
             prefix == IF t.root # RootName THEN t.root \o <<sep>> ELSE <<>>
             n1     == GetNode(nodes, members, t.root)
         IN  IndexTriples(AddChildren(n1, members, t.root, prefix, ChildOrder(t)),
                          members, Tail(triples), sep)

\* _make_args: the index, or the failure of walk_paths
MakeArgs(members) ==
    LET b == Build(TarPaths(members, SEP), SEP)
    IN  IF b.status # "ok" THEN [status |-> b.status, nodes |-> <<>>]
        ELSE [status |-> "ok",
              nodes  |-> IndexTriples(<<>>, members, WalkAll(b.stack), SEP)]

\* ------------------------------------------------------------------------
\* TarPath: the path protocol (tar.py 81-157)
\* ------------------------------------------------------------------------

None == <<"None">>

\* str.split('/'), used for pathlib's parsing of a segment
RECURSIVE SplitSep(_, _)
SplitSep(s, acc) ==
    IF s = <<>> THEN <<acc>>
    ELSE IF Head(s) = SEP THEN <<acc>> \o SplitSep(Tail(s), <<>>)
    ELSE SplitSep(Tail(s), Append(acc, Head(s)))

IsRealPart(x) == x # <<>> /\ x # <<".">>

\* the parts pathlib keeps of a relative segment: empty and '.' parts dropped
PartsOf(s) == SelectSeq(SplitSep(s, <<>>), IsRealPart)

\* '/'.join(parts)
RECURSIVE JoinSep(_)
JoinSep(parts) ==
    IF parts = <<>> THEN <<>>
    ELSE IF Len(parts) = 1 THEN parts[1]
    ELSE parts[1] \o <<SEP>> \o JoinSep(Tail(parts))

\* nodes.get(key)
NodesGet(nodes, key) == IF HasKey(nodes, key) THEN key ELSE None

\* __init__, line 105
ResolveNode(nodes, rpath, node) ==
    IF node # None THEN node ELSE NodesGet(nodes, JoinSep(rpath))

\* a TarPath: its _rpath (parts) and its _node (the key of a node, or None)
TarPathOf(nodes, rpath, node) ==
    [rpath |-> rpath, node |-> ResolveNode(nodes, rpath, node)]

\* __truediv__, lines 147-150
TarDivide(nodes, p, s) == TarPathOf(nodes, p.rpath \o PartsOf(s), None)

NodeOf(nodes, key) == nodes[KeyIndex(nodes, key)]

\* Node.name, line 28
NodeName(n) ==
    LET sp == RSplit1(n.info.name, SEP) IN sp[Len(sp)]

\* exists, line 120
TarExistsOf(p) == p.node # None

\* __new__, lines 57-79: how often the constructor reads the member list of
\* the container, by the kind of its argument
NewReads(tar) ==
    CASE tar = "TarPath" -> 0
      [] tar = "TarFile" -> 0
      [] OTHER           -> 1

\* is_file answering False for a path without a node
TarIsFileOf_Soft(nodes, p) ==
    IF p.node = None THEN "False"
    ELSE IF NodeOf(nodes, p.node).info.isdir THEN "False" ELSE "True"

\* is_file / is_dir, lines 113-117, through the property node, lines 108-111
TarIsFileOf(nodes, p) ==
    IF p.node = None THEN "AssertionError"
    ELSE IF NodeOf(nodes, p.node).info.isdir THEN "False" ELSE "True"

TarIsDirOf(nodes, p) ==
    IF p.node = None THEN "AssertionError"
    ELSE IF NodeOf(nodes, p.node).info.isdir THEN "True" ELSE "False"

\* list(p.iterdir()), lines 122-128: the children as TarPaths, or the error
TarIterdirOf(nodes, p) ==
    IF p.node = None THEN [err |-> "AssertionError", val |-> <<>>]
    ELSE LET n == NodeOf(nodes, p.node)
         IN  IF ~n.info.isdir THEN [err |-> "AssertionError", val |-> <<>>]
             ELSE [err |-> "ok",
                   val |-> [i \in 1..Len(n.children) |->
                             TarPathOf(nodes,
                                       p.rpath \o PartsOf(NodeName(NodeOf(nodes, n.children[i]))),
                                       n.children[i])]]

\* every path found by calling iterdir() on p and, recursively, on each
\* directory found
RECURSIVE TarListAllOf(_, _)
TarListAllOf(nodes, p) ==
    LET cs == TarIterdirOf(nodes, p).val
    IN  Flatten([i \in 1..Len(cs) |->
                   <<cs[i]>> \o (IF TarIsDirOf(nodes, cs[i]) = "True"
                                 THEN TarListAllOf(nodes, cs[i]) ELSE <<>>)])

\* TarFile.extractfile: a stream for a regular file, None for a directory
ExtractFile(info) == IF info.isdir THEN "None" ELSE "bytes stream"

\* open, lines 152-157
TarOpenOf(nodes, p, mode) ==
    IF p.node = None THEN "AssertionError"
    ELSE LET extracted == ExtractFile(NodeOf(nodes, p.node).info)
         IN  IF \E i \in 1..Len(mode) : mode[i] = "b" THEN extracted
             ELSE IF extracted = "None" THEN "AttributeError"
             ELSE "text stream"

\* fnmatch.fnmatch(s, pat) for patterns made of literal characters, '?' and
\* '*'; neither wildcard treats the separator specially
RECURSIVE FnMatch(_, _)
FnMatch(s, pat) ==
    IF pat = <<>> THEN s = <<>>
    ELSE IF Head(pat) = "*"
         THEN FnMatch(s, Tail(pat)) \/ (s # <<>> /\ FnMatch(Tail(s), pat))
    ELSE /\ s # <<>>
         /\ Head(pat) = "?" \/ Head(pat) = Head(s)
         /\ FnMatch(Tail(s), Tail(pat))

\* lines 131-132: prefix
GlobPrefix(p) == IF p.rpath = <<>> THEN <<>> ELSE JoinSep(p.rpath) \o <<SEP>>

\* list(p.glob(pattern)), lines 130-138: the entries of the index, in its
\* order, whose key matches prefix + pattern
TarGlobOf(nodes, p, pattern) ==
    LET full       == GlobPrefix(p) \o pattern
        Matches(n) == FnMatch(n.key, full)
        found      == SelectSeq(nodes, Matches)
    IN  [i \in 1..Len(found) |->
           [rpath |-> PartsOf(found[i].key), node |-> found[i].key]]

\* list(p.rglob(pattern)), lines 140-142
TarRglobOf(nodes, p, pattern) == TarGlobOf(nodes, p, <<"*">> \o pattern)

\* ------------------------------------------------------------------------
\* ZipPath: the completed name list of the container (zipfile.CompleteDirs,
\* which ZipPath reaches as self.root)
\* ------------------------------------------------------------------------

\* most members of a zip archive
MaxZip == 2

\* longest at (in characters) reached by division
MaxAt == 5

\* the member names the zip archives are made of
ZipNames ==
    { <<"a", "/">>,
      <<"a", "/", "b">>,
      <<"a", "/", "a", "/", "b">>,
      <<"b">>,
      <<"a", "b", "/", "b">> }

\* str.rstrip('/')
RECURSIVE RStripSep(_)
RStripSep(s) ==
    IF s # <<>> /\ s[Len(s)] = SEP THEN RStripSep(SubSeq(s, 1, Len(s) - 1)) ELSE s

\* posixpath.dirname
PosixDirname(p) ==
    LET head == SubSeq(p, 1, LastSep(p, SEP))
    IN  IF head # <<>> /\ (\E i \in 1..Len(head) : head[i] # SEP)
        THEN RStripSep(head) ELSE head

\* posixpath.join(a, b)
PosixJoin(a, b) ==
    IF StartsWith(b, <<SEP>>) THEN b
    ELSE IF a = <<>> \/ a[Len(a)] = SEP THEN a \o b
    ELSE a \o <<SEP>> \o b

\* zipfile._ancestry, for a path already stripped of trailing separators
RECURSIVE Ancestry(_)
Ancestry(path) ==
    IF path = <<>> \/ path = <<SEP>> THEN <<>>
    ELSE <<path>> \o Ancestry(PosixDirname(path))

\* zipfile._parents
Parents(name) ==
    LET a == Ancestry(RStripSep(name)) IN IF a = <<>> THEN <<>> ELSE Tail(a)

\* dict.fromkeys: the first occurrences, in order
RECURSIVE Dedupe(_, _)
Dedupe(l, seen) ==
    IF l = <<>> THEN <<>>
    ELSE IF Head(l) \in seen THEN Dedupe(Tail(l), seen)
    ELSE <<Head(l)>> \o Dedupe(Tail(l), seen \cup {Head(l)})

\* CompleteDirs._implied_dirs
ImpliedDirs(names) ==
    LET as_dirs == Flatten([i \in 1..Len(names) |->
                      [j \in 1..Len(Parents(names[i])) |-> Parents(names[i])[j] \o <<SEP>>]])
        NotListed(d) == d \notin SeqToSet(names)
    IN  Dedupe(SelectSeq(as_dirs, NotListed), {})

\* CompleteDirs.namelist
NameList(names) == names \o ImpliedDirs(names)

\* CompleteDirs._name_set
NameSet(names) == SeqToSet(NameList(names))

\* CompleteDirs.resolve_dir
ResolveDir(names, name) ==
    IF name \notin NameSet(names) /\ (name \o <<SEP>>) \in NameSet(names)
    THEN name \o <<SEP>> ELSE name

\* ------------------------------------------------------------------------
\* ZipPath: the path protocol (zip.py 52-124)
\* ------------------------------------------------------------------------

\* a ZipPath: the file name of its container and its at
ZipPathOf(file, at) == [file |-> file, at |-> at]

\* __truediv__, lines 92-98: zipfile.Path(self.root) / self.at / key
ZipDivide(names, p, key) ==
    LET at1 == ResolveDir(names, PosixJoin(<<>>, p.at))
    IN  ZipPathOf(p.file, ResolveDir(names, PosixJoin(at1, key)))

\* zipfile.Path.exists, the super().exists() of line 56
BaseExists(names, at) == at \in NameSet(names)

\* exists without the second look-up of line 56
ZipExistsOf_NoAsDir(names, file_exists, p) ==
    IF p.at = <<>> THEN file_exists ELSE BaseExists(names, p.at)

\* exists, lines 52-56
ZipExistsOf(names, file_exists, p) ==
    IF p.at = <<>> THEN file_exists
    ELSE BaseExists(names, p.at) \/ BaseExists(names, p.at \o <<SEP>>)

\* list(p.iterdir()), lines 100-102: the names of the completed list whose
\* parent is p._as_dir()
ZipIterdirOf(names, p) ==
    LET dir_at == p.at \o <<SEP>>
        IsChild(n) == PosixDirname(RStripSep(n)) = RStripSep(dir_at)
        cs == SelectSeq(NameList(names), IsChild)
    IN  [i \in 1..Len(cs) |-> ZipPathOf(p.file, cs[i])]

\* pathlib's parts of a path given as a string
PathParts(s) ==
    IF StartsWith(s, <<SEP>>) THEN << <<SEP>> >> \o PartsOf(s) ELSE PartsOf(s)

\* filepath, lines 35-40, and subpath, lines 42-44
Filepath(p) == PathParts(p.file)

Subpath(p) == PathParts(p.at)

\* tuple.__lt__ on tuples of str, the order of pathlib paths
RECURSIVE PartsLess(_, _)
PartsLess(x, y) ==
    IF y = <<>> THEN FALSE
    ELSE IF x = <<>> THEN TRUE
    ELSE IF Head(x) = Head(y) THEN PartsLess(Tail(x), Tail(y))
    ELSE StrLess(Head(x), Head(y))

\* __eq__ comparing the raw at strings
ZipEq_RawAt(a, b) == <<Filepath(a), a.at>> = <<Filepath(b), b.at>>

\* __eq__, lines 112-116
ZipEq(a, b) == <<Filepath(a), Subpath(a)>> = <<Filepath(b), Subpath(b)>>

\* __lt__, lines 118-121: the tuples compare at their first unequal element
ZipLt(a, b) ==
    IF Filepath(a) # Filepath(b) THEN PartsLess(Filepath(a), Filepath(b))
    ELSE IF Subpath(a) # Subpath(b) THEN PartsLess(Subpath(a), Subpath(b))
    ELSE FALSE

\* a deterministic function of the characters stands for str.__hash__ ...
RECURSIVE HashStr(_, _)
HashStr(s, h) ==
    IF s = <<>> THEN h ELSE HashStr(Tail(s), (h * 31 + Ord(Head(s))) % 65536)

\* ... and of the element hashes for tuple.__hash__
RECURSIVE HashParts(_, _)
HashParts(ps, h) ==
    IF ps = <<>> THEN h
    ELSE HashParts(Tail(ps), (h * 33 + HashStr(Head(ps), 7)) % 65536)

\* __hash__ taken over the raw at string
ZipHash_RawAt(a) == (HashParts(Filepath(a), 5) * 1009 + HashStr(a.at, 7)) % 65536

\* __hash__, lines 123-124
ZipHash(a) == (HashParts(Filepath(a), 5) * 1009 + HashParts(Subpath(a), 5)) % 65536

\* relative_to, lines 73-75: the parts of a below b, or the error
ZipRelativeTo(a, b) ==
    IF Filepath(a) # Filepath(b) THEN [err |-> "AssertionError", val |-> <<>>]
    ELSE IF ~IsPrefixSeq(Subpath(b), Subpath(a)) THEN [err |-> "ValueError", val |-> <<>>]
    ELSE [err |-> "ok", val |-> SubSeq(Subpath(a), Len(Subpath(b)) + 1, Len(Subpath(a)))]

\* every path found by calling iterdir() on p and, recursively, on each path
\* found that is a directory (its at ends in the separator)
RECURSIVE ZipListAllOf(_, _)
ZipListAllOf(names, p) ==
    LET cs == ZipIterdirOf(names, p)
    IN  Flatten([i \in 1..Len(cs) |->
                   <<cs[i]>> \o (IF IsDirAt(cs[i].at)
                                 THEN ZipListAllOf(names, cs[i]) ELSE <<>>)])

\* walk, lines 163-171: what is left of the names that start with at, the
\* empty remainders dropped, sorted
WalkNames(names, p) ==
    LET HasPrefix(n) == StartsWith(n, p.at) /\ Len(n) > Len(p.at)
        under == SelectSeq(NameList(names), HasPrefix)
    IN  SortStrs([i \in 1..Len(under) |-> SubSeq(under[i], Len(p.at) + 1, Len(under[i]))])

\* list(p.walk()), lines 153-178: the triples, or the failure of walk_paths
ZipWalkOf(names, p) ==
    LET b == Build(WalkNames(names, p), SEP)
    IN  IF b.status # "ok" THEN [err |-> b.status, val |-> <<>>]
        ELSE LET ts == WalkAll(b.stack)
             IN  [err |-> "ok",
                  val |-> [i \in 1..Len(ts) |->
                             [r     |-> IF ts[i].root = RootName THEN p
                                        ELSE ZipDivide(names, p, ts[i].root),
                              dirs  |-> ts[i].dirs,
                              files |-> ts[i].files]]]

\* Path(s).match(glob), line 69, for a relative pattern with at least one
\* part: the last parts of s match the parts of the pattern one by one
PathMatch(s, glob) ==
    LET pp == PartsOf(glob)
        sp == PartsOf(s)
    IN  /\ Len(pp) <= Len(sp)
        /\ \A i \in 1..Len(pp) : FnMatch(sp[Len(sp) - Len(pp) + i], pp[i])

\* list(p.rglob(glob)), lines 65-70
ZipRglobOf(names, p, glob) ==
    LET Keep(n) == StartsWith(n, p.at) /\ PathMatch(n, glob)
        found   == SelectSeq(NameList(names), Keep)
    IN  [i \in 1..Len(found) |-> ZipPathOf(p.file, found[i])]

\* ------------------------------------------------------------------------
\* CPath, the facade (__init__.py 28-171), and TarPath.__new__ (tar.py 49-79)
\* ------------------------------------------------------------------------

\* class Ext, __init__.py 28-37
ExtXz    == <<".", "x", "z">>
ExtZip   == <<".", "z", "i", "p">>
ExtLz4   == <<".", "l", "z", "4">>
ExtZstd  == <<".", "z", "s", "t", "d">>
ExtZst   == <<".", "z", "s", "t">>
ExtTargz == <<".", "t", "a", "r", ".", "g", "z">>
ExtGz    == <<".", "g", "z">>

\* str.endswith
EndsWith(s, suf) ==
    Len(s) >= Len(suf) /\ SubSeq(s, Len(s) - Len(suf) + 1, Len(s)) = suf

\* the longest relative path the client builds by division
MaxSub == 2

\* the file names of the directory the client works in; a file that exists
\* has the format its suffix says
FileNames ==
    { <<"f">> \o ExtZip, <<"f">> \o ExtTargz, <<"f">> \o ExtGz,
      <<"f">>, <<"z", "i", "p">> }

\* the segments the client divides by
CSegments == { <<"a">>, <<"a">> \o ExtGz }

\* the modes the client opens with; "None" stands for no mode given
CModes == {"None", "r", "rt", "rb"}

\* the content of every zip archive and of every tar archive in the directory
CZipNames == << <<"a">> >>
CTarMembers == << File(<<"a">>) >>

\* a path object: its class, the file it was constructed over, and its
\* relative path below that file (at for a ZipPath, else the parts; a
\* TarPath also holds its node)
CObj(kind, name, at, rpath, node) ==
    [kind |-> kind, name |-> name, at |-> at, rpath |-> rpath, node |-> node]

NoObj == CObj("none", <<>>, <<>>, <<>>, None)

\* the parts of the object below its file, as Path(obj) sees them
RelParts(o) == IF o.kind = "ZipPath" THEN PartsOf(o.at) ELSE o.rpath

\* Path.name
PathName(name, rpath) == IF rpath = <<>> THEN name ELSE rpath[Len(rpath)]

\* Path.exists: a regular file exists and has nothing below it
PathExists(fs, name, rpath) == rpath = <<>> /\ name \in fs

\* the error of opening a path for reading
OpenError(fs, name, rpath) ==
    IF PathExists(fs, name, rpath) THEN "ok"
    ELSE IF name \in fs THEN "NotADirectoryError"
    ELSE "FileNotFoundError"

\* ZipPath(path): zipfile.Path.__init__ opens the archive file
ZipPathNew(fs, name, rpath) ==
    LET e == OpenError(fs, name, rpath)
    IN  [err |-> e,
         obj |-> IF e = "ok" THEN CObj("ZipPath", name, <<>>, <<>>, None) ELSE NoObj]

\* CPath.__new__, lines 151-160
CPathNewOf(fs, name, rpath) ==
    IF EndsWith(PathName(name, rpath), ExtZip)
    THEN ZipPathNew(fs, name, rpath)
    ELSE [err |-> "ok", obj |-> CObj("CPath", name, <<>>, rpath, None)]

\* TarPath.__new__ for a str or a Path, tar.py 69-79
TarPathNewOf(fs, name, rpath) ==
    IF ~PathExists(fs, name, rpath)
    THEN [err |-> "ok", obj |-> CObj("PosixPath", name, <<>>, rpath, None)]
    ELSE IF ~EndsWith(name, ExtTargz)
    THEN [err |-> "ReadError", obj |-> NoObj]
    ELSE LET r == MakeArgs(CTarMembers)
         IN  IF r.status # "ok" THEN [err |-> r.status, obj |-> NoObj]
             ELSE [err |-> "ok",
                   obj |-> CObj("TarPath", name, <<>>, <<>>,
                                TarPathOf(r.nodes, <<>>, RootName).node)]

\* obj / s: ZipPath and TarPath by their own __truediv__; a CPath or a
\* plain path by pathlib, which keeps the class of the left operand
CDivide(o, s) ==
    CASE o.kind = "ZipPath" ->
           [o EXCEPT !.at = ZipDivide(CZipNames, ZipPathOf(o.name, o.at), s).at]
      [] o.kind = "TarPath" ->
           LET t == TarDivide(MakeArgs(CTarMembers).nodes,
                              [rpath |-> o.rpath, node |-> o.node], s)
           IN  [o EXCEPT !.rpath = t.rpath, !.node = t.node]
      [] OTHER -> [o EXCEPT !.rpath = o.rpath \o PartsOf(s)]

\* obj.exists()
CExistsOf(fs, o) ==
    CASE o.kind = "ZipPath" ->
           ZipExistsOf(CZipNames, o.name \in fs, ZipPathOf(o.name, o.at))
      [] o.kind = "TarPath" -> TarExistsOf([rpath |-> o.rpath, node |-> o.node])
      [] OTHER -> PathExists(fs, o.name, o.rpath)

\* the modes that contain 'b', that contain 't', and that write
BinaryModes == {"rb", "wb"}
TextModes == {"rt"}
WriteModes == {"w", "wb", "a"}

\* the outcome of an open call: the error or "ok", the opener the dispatcher
\* chose, the kind of the stream, whether it can be written to, and whether
\* the call created the file
Stream(via, stream, writable, created) ==
    [err |-> "ok", via |-> via, stream |-> stream,
     writable |-> writable, created |-> created]

Raised(err, via) ==
    [err |-> err, via |-> via, stream |-> "none",
     writable |-> FALSE, created |-> FALSE]

\* the kind of stream an opener gives that decides by the 't' of the mode
\* (gzip.open, lzma.open, lz4.frame.open), and one that decides by the 'b'
\* (open, zipfile.Path.open)
StreamByT(mode) == IF mode \in TextModes THEN "text stream" ELSE "bytes stream"
StreamByB(mode) == IF mode \in BinaryModes THEN "bytes stream" ELSE "text stream"

\* the error of opening a path for writing
WriteError(fs, name, rpath) ==
    IF rpath = <<>> THEN "ok"
    ELSE IF name \in fs THEN "NotADirectoryError"
    ELSE "FileNotFoundError"

\* an opener of the standard library applied to the file: it reads an
\* existing file, or creates the file when the mode writes
Opened(fs, name, rpath, via, mode, stream) ==
    IF mode \in WriteModes
    THEN IF WriteError(fs, name, rpath) # "ok"
         THEN Raised(WriteError(fs, name, rpath), via)
         ELSE Stream(via, stream, TRUE, name \notin fs)
    ELSE IF OpenError(fs, name, rpath) # "ok"
         THEN Raised(OpenError(fs, name, rpath), via)
         ELSE Stream(via, stream, FALSE, FALSE)

\* gzip.open, lzma.open and lz4.frame.open refuse an encoding together with
\* a mode that has no 't', before they touch the file
OpenedCodec(fs, name, rpath, via, mode, encoding) ==
    IF mode \notin TextModes /\ encoding # "None"
    THEN Raised("ValueError", via)
    ELSE Opened(fs, name, rpath, via, mode, StreamByT(mode))

\* (zpath / subpath).open(mode=mode), line 97, on the archive CZipNames
KopenZip(fs, name, rpath, args, mode) ==
    IF OpenError(fs, name, rpath) # "ok"
    THEN Raised(OpenError(fs, name, rpath), "ZipPath")
    ELSE IF Len(args) # 1 THEN Raised("ValueError", "ZipPath")
    ELSE LET p == ZipDivide(CZipNames, ZipPathOf(name, <<>>), args[1])
         IN  IF p.at = <<>> \/ IsDirAt(p.at) THEN Raised("IsADirectoryError", "ZipPath")
             ELSE IF mode \in WriteModes THEN Raised("ValueError", "ZipPath")
             ELSE IF ~ZipExistsOf(CZipNames, TRUE, p)
             THEN Raised("FileNotFoundError", "ZipPath")
             ELSE Stream("ZipPath", StreamByB(mode), FALSE, FALSE)

\* tarfile.open(pp).extractfile(*args), lines 104-109, on the archive
\* CTarMembers
KopenTar(fs, name, rpath, args) ==
    IF OpenError(fs, name, rpath) # "ok"
    THEN Raised(OpenError(fs, name, rpath), "tarfile.open")
    ELSE IF Len(args) # 1 THEN Raised("TypeError", "tarfile.open")
    ELSE LET hits == SelectSeq(CTarMembers, LAMBDA m : m.name = args[1])
         IN  IF hits = <<>> THEN Raised("KeyError", "tarfile.open")
             ELSE IF hits[Len(hits)].isdir THEN Raised("AssertionError", "tarfile.open")
             ELSE Stream("tarfile.open", "bytes stream", FALSE, FALSE)

\* kopen refusing the names of containers, the way the single-stream
\* dispatcher of the specification does
Kopen_RejectContainers(fs, name, rpath, args, mode) ==
    LET n == PathName(name, rpath)
    IN  IF EndsWith(n, ExtZip) \/ EndsWith(n, ExtTargz)
        THEN Raised("RuntimeError", "kopen")
        ELSE Opened(fs, name, rpath, "Path.open", mode, StreamByB(mode))

\* kopen(path, *args, mode=mode), lines 66-131; the positional arguments
\* are handed on to the opener, which has no parameter to take them
Kopen(fs, name, rpath, args, mode) ==
    LET n == PathName(name, rpath)
        encoding == IF mode \in {"r", "rt"} THEN "utf8" ELSE "None"
        rt == IF mode = "r" THEN "rt" ELSE mode
    IN  CASE EndsWith(n, ExtXz) ->
               IF args # <<>> THEN Raised("TypeError", "lzma.open")
               ELSE OpenedCodec(fs, name, rpath, "lzma.open", rt, encoding)
          [] EndsWith(n, ExtZip) ->
               KopenZip(fs, name, rpath, args, mode)
          [] EndsWith(n, ExtLz4) ->
               IF args # <<>> THEN Raised("TypeError", "lz4.frame.open")
               ELSE OpenedCodec(fs, name, rpath, "lz4.frame.open", mode, encoding)
          [] EndsWith(n, ExtZstd) \/ EndsWith(n, ExtZst) ->
               IF OpenError(fs, name, rpath) # "ok"
               THEN Raised(OpenError(fs, name, rpath), "_zstd_open")
               ELSE Stream("_zstd_open",
                           IF mode = "rb" THEN "bytes stream" ELSE "text stream",
                           FALSE, FALSE)
          [] EndsWith(n, ExtTargz) ->
               KopenTar(fs, name, rpath, args)
          [] EndsWith(n, ExtGz) ->
               IF args # <<>> THEN Raised("TypeError", "gzip.open")
               ELSE OpenedCodec(fs, name, rpath, "gzip.open", rt,
                                IF rt \in BinaryModes THEN "None" ELSE encoding)
          [] OTHER ->
               IF args # <<>> THEN Raised("TypeError", "Path.open")
               ELSE Opened(fs, name, rpath, "Path.open", mode, StreamByB(mode))

\* CPath.open(*args, mode=mode), lines 162-171: only the keywords are read,
\* the positional arguments are accepted and go nowhere
CPathOpenOf(fs, o, args, mode) ==
    Kopen(fs, o.name, o.rpath, <<>>, IF mode = "None" THEN "rt" ELSE mode)

\* ------------------------------------------------------------------------
\* State
\* ------------------------------------------------------------------------

VARIABLES
    paths,      \* walk_paths: the member list being consumed
    bpos,       \* walk_paths: position of `for p in paths`
    stack,      \* walk_paths: stack
    stack_pos,  \* walk_paths: stack_pos (1-based)
    wstatus,    \* walk_paths: "building", "walking", "done", "AssertionError"
    frames,     \* walk_paths: the suspended _traverse calls
    yields,     \* the triples the consumer has received so far
    pruned      \* the entries whose name the consumer removed from a dirs list

VARIABLES
    members,    \* tar: the members of the archive file, in archive order
    tstatus,    \* tar: "closed", "open", or the error of the construction
    nodes,      \* tar: TarPath._nodes, the index shared by all paths
    reads,      \* tar: how often the member list of the container was read
    cur,        \* tar: the TarPath the client holds
    origin,     \* tar: how the client obtained cur: "root", "div", "iterdir"
    tres        \* tar: the last call on cur and its outcome

VARIABLES
    znames,     \* zip: the member names of the archive file, in archive order
    zfile,      \* zip: whether the archive file exists in the file system
    zstatus,    \* zip: "closed", "open", or the error of the construction
    zcur,       \* zip: the ZipPath the client holds
    zres        \* zip: the last call on zcur and its outcome

VARIABLES
    fs,         \* facade: the names of the files that exist in the directory
    cobj,       \* facade: the path object the client holds
    cres        \* facade: the last call and its outcome

walkVars == <<paths, bpos, stack, stack_pos, wstatus, frames, yields, pruned>>

tarVars == <<members, tstatus, nodes, reads, cur, origin, tres>>

zipVars == <<znames, zfile, zstatus, zcur, zres>>

cpathVars == <<fs, cobj, cres>>

vars == <<walkVars, tarVars, zipVars, cpathVars>>

\* the machines that are not running in a specification
WalkIdle ==
    /\ paths = <<>>
    /\ bpos = 1
    /\ stack = InitBuild.stack
    /\ stack_pos = InitBuild.stack_pos
    /\ wstatus = "idle"
    /\ frames = <<>>
    /\ yields = <<>>
    /\ pruned = {}

NoCall == [op |-> "none", arg |-> <<>>, err |-> "ok", val |-> <<>>]

TarIdle ==
    /\ members = <<>>
    /\ tstatus = "idle"
    /\ nodes = <<>>
    /\ reads = 0
    /\ cur = [rpath |-> <<>>, node |-> None]
    /\ origin = "none"
    /\ tres = NoCall

ZipIdle ==
    /\ znames = <<>>
    /\ zfile = FALSE
    /\ zstatus = "idle"
    /\ zcur = [file |-> <<>>, at |-> <<>>]
    /\ zres = NoCall

CPathIdle ==
    /\ fs = {}
    /\ cobj = NoObj
    /\ cres = NoCall

\* ------------------------------------------------------------------------
\* walk_paths as a generator driven by a consumer
\* ------------------------------------------------------------------------

InitWalk ==
    /\ paths \in SeqsUpTo(MemberPaths, MaxLen)
    /\ bpos = 1
    /\ stack = InitBuild.stack
    /\ stack_pos = InitBuild.stack_pos
    /\ wstatus = "building"
    /\ frames = <<>>
    /\ yields = <<>>
    /\ pruned = {}

\* one iteration of the builder loop, lines 25-61
WalkBuildPath ==
    /\ wstatus = "building"
    /\ bpos <= Len(paths)
    /\ LET b == BuildStep([stack |-> stack, stack_pos |-> stack_pos, status |-> "ok"],
                          paths[bpos], SEP)
       IN  /\ stack' = b.stack
           /\ stack_pos' = b.stack_pos
           /\ wstatus' = IF b.status = "ok" THEN "building" ELSE b.status
    /\ bpos' = bpos + 1
    /\ UNCHANGED <<paths, frames, yields, pruned>>
    /\ UNCHANGED <<tarVars, zipVars, cpathVars>>

\* line 76 and the first yield of line 70: the root triple
WalkFirstYield ==
    /\ wstatus = "building"
    /\ bpos > Len(paths)
    /\ frames' = <<NewFrame(stack, 1)>>
    /\ yields' = <<Triple(stack, 1)>>
    /\ wstatus' = "walking"
    /\ UNCHANGED <<paths, bpos, stack, stack_pos, pruned>>
    /\ UNCHANGED <<tarVars, zipVars, cpathVars>>

\* the consumer resumes the generator: lines 73-74 up to the next yield or
\* to the end of the iteration
WalkNextYield ==
    /\ wstatus = "walking"
    /\ LET f == Resume(stack, frames)
       IN  /\ frames' = f
           /\ IF f = <<>>
              THEN /\ wstatus' = "done"
                   /\ yields' = yields
              ELSE /\ wstatus' = "walking"
                   /\ yields' = Append(yields, Triple(stack, f[Len(f)].entry))
    /\ UNCHANGED <<paths, bpos, stack, stack_pos, pruned>>
    /\ UNCHANGED <<tarVars, zipVars, cpathVars>>

\* the consumer removes a name from the dirs list it was just handed
\* (tests/zippath.py 66-68)
WalkPrune ==
    /\ wstatus = "walking"
    /\ frames # <<>>
    /\ LET n   == Len(frames)
           top == frames[n]
       IN  /\ top.pos = 1
           /\ \E d \in SeqToSet(top.dirnames) :
                /\ frames' = [frames EXCEPT ![n].dirnames = RemoveFirst(@, d)]
                /\ pruned' = pruned \cup {ChildDir(stack[top.entry], d)}
    /\ UNCHANGED <<paths, bpos, stack, stack_pos, wstatus, yields>>
    /\ UNCHANGED <<tarVars, zipVars, cpathVars>>

NextWalk == WalkBuildPath \/ WalkFirstYield \/ WalkNextYield \/ WalkPrune

Init == InitWalk /\ TarIdle /\ ZipIdle /\ CPathIdle

Next == NextWalk

Spec == Init /\ [][Next]_vars

\* ------------------------------------------------------------------------
\* A client of TarPath
\* ------------------------------------------------------------------------

\* the segments the client divides by
Segments ==
    { <<"a">>, <<"b">>, <<"a", "/", "b">>, <<"h">>, <<".">> }

\* the modes the client opens with
Modes == { <<"r">>, <<"r", "b">>, <<"r", "t">> }

Call(op, arg, err, val) == [op |-> op, arg |-> arg, err |-> err, val |-> val]

\* a call whose outcome is a value or an error named by a string
Outcome(op, arg, r) ==
    IF r \in {"AssertionError", "AttributeError"}
    THEN Call(op, arg, r, <<>>)
    ELSE Call(op, arg, "ok", r)

InitTar ==
    /\ members \in SeqsUpTo(TarMembers, MaxMembers)
    /\ tstatus = "closed"
    /\ nodes = <<>>
    /\ reads = 0
    /\ cur = [rpath |-> <<>>, node |-> None]
    /\ origin = "none"
    /\ tres = NoCall

\* TarPath(path) for an existing file, lines 69-79
TarConstruct ==
    /\ tstatus = "closed"
    /\ LET r == MakeArgs(members)
       IN  /\ tstatus' = IF r.status = "ok" THEN "open" ELSE r.status
           /\ nodes' = r.nodes
           /\ cur' = IF r.status = "ok" THEN TarPathOf(r.nodes, <<>>, RootName) ELSE cur
           /\ origin' = IF r.status = "ok" THEN "root" ELSE origin
    /\ reads' = reads + NewReads("Path")
    /\ tres' = NoCall
    /\ UNCHANGED members
    /\ UNCHANGED <<walkVars, zipVars, cpathVars>>

\* cur / s
TarDiv ==
    /\ tstatus = "open"
    /\ \E s \in Segments :
         /\ Len(cur.rpath \o PartsOf(s)) <= MaxDepth
         /\ cur' = TarDivide(nodes, cur, s)
         /\ tres' = Call("div", s, "ok", <<>>)
    /\ origin' = "div"
    /\ reads' = reads + NewReads("TarFile")
    /\ UNCHANGED <<members, tstatus, nodes>>
    /\ UNCHANGED <<walkVars, zipVars, cpathVars>>

\* cur.exists()
TarExists ==
    /\ tstatus = "open"
    /\ tres' = Call("exists", <<>>, "ok", IF TarExistsOf(cur) THEN "True" ELSE "False")
    /\ UNCHANGED <<members, tstatus, nodes, reads, cur, origin>>
    /\ UNCHANGED <<walkVars, zipVars, cpathVars>>

\* cur.is_file()
TarIsFile ==
    /\ tstatus = "open"
    /\ tres' = Outcome("is_file", <<>>, TarIsFileOf(nodes, cur))
    /\ UNCHANGED <<members, tstatus, nodes, reads, cur, origin>>
    /\ UNCHANGED <<walkVars, zipVars, cpathVars>>

\* cur.is_dir()
TarIsDir ==
    /\ tstatus = "open"
    /\ tres' = Outcome("is_dir", <<>>, TarIsDirOf(nodes, cur))
    /\ UNCHANGED <<members, tstatus, nodes, reads, cur, origin>>
    /\ UNCHANGED <<walkVars, zipVars, cpathVars>>

\* cur.name (pathlib: the last part, '' for the root)
TarName ==
    /\ tstatus = "open"
    /\ tres' = Call("name", <<>>, "ok",
                    IF cur.rpath = <<>> THEN <<>> ELSE cur.rpath[Len(cur.rpath)])
    /\ UNCHANGED <<members, tstatus, nodes, reads, cur, origin>>
    /\ UNCHANGED <<walkVars, zipVars, cpathVars>>

\* list(cur.iterdir())
TarIterdir ==
    /\ tstatus = "open"
    /\ LET r == TarIterdirOf(nodes, cur)
       IN  tres' = Call("iterdir", <<>>, r.err, r.val)
    /\ UNCHANGED <<members, tstatus, nodes, reads, cur, origin>>
    /\ UNCHANGED <<walkVars, zipVars, cpathVars>>

\* the client moves on to one of the paths iterdir() gave it
TarEnter ==
    /\ tstatus = "open"
    /\ tres.op = "iterdir"
    /\ \E i \in 1..Len(tres.val) : cur' = tres.val[i]
    /\ origin' = "iterdir"
    /\ tres' = NoCall
    /\ UNCHANGED <<members, tstatus, nodes, reads>>
    /\ UNCHANGED <<walkVars, zipVars, cpathVars>>

\* cur.open(mode)
TarOpen ==
    /\ tstatus = "open"
    /\ \E mode \in Modes : tres' = Outcome("open", mode, TarOpenOf(nodes, cur, mode))
    /\ UNCHANGED <<members, tstatus, nodes, reads, cur, origin>>
    /\ UNCHANGED <<walkVars, zipVars, cpathVars>>

\* the client enumerates iterdir() recursively from the root it was given
TarListAll ==
    /\ tstatus = "open"
    /\ origin = "root"
    /\ tres' = Call("listall", <<>>, "ok", TarListAllOf(nodes, cur))
    /\ UNCHANGED <<members, tstatus, nodes, reads, cur, origin>>
    /\ UNCHANGED <<walkVars, zipVars, cpathVars>>

\* the patterns the client globs with
Patterns == { <<"*">>, <<"b">> }

\* list(cur.glob(pattern))
TarGlob ==
    /\ tstatus = "open"
    /\ \E pattern \in Patterns :
          tres' = Call("glob", pattern, "ok", TarGlobOf(nodes, cur, pattern))
    /\ UNCHANGED <<members, tstatus, nodes, reads, cur, origin>>
    /\ UNCHANGED <<walkVars, zipVars, cpathVars>>

\* list(cur.rglob(pattern))
TarRglob ==
    /\ tstatus = "open"
    /\ \E pattern \in Patterns :
          tres' = Call("rglob", pattern, "ok", TarRglobOf(nodes, cur, pattern))
    /\ UNCHANGED <<members, tstatus, nodes, reads, cur, origin>>
    /\ UNCHANGED <<walkVars, zipVars, cpathVars>>

NextTar ==
    \/ TarConstruct \/ TarDiv \/ TarExists \/ TarIsFile \/ TarIsDir \/ TarName
    \/ TarIterdir \/ TarEnter \/ TarOpen \/ TarListAll \/ TarGlob \/ TarRglob

TarInit == WalkIdle /\ InitTar /\ ZipIdle /\ CPathIdle

SpecTar == TarInit /\ [][NextTar]_vars

\* the members of archives in which one name ends as another one does
GlobMembers ==
    { Dir(<<"a">>),
      File(<<"a", "/", "b">>),
      File(<<"a", "b">>),
      File(<<"b">>) }

InitTarGlob ==
    /\ members \in SeqsUpTo(GlobMembers, MaxMembers)
    /\ tstatus = "closed"
    /\ nodes = <<>>
    /\ reads = 0
    /\ cur = [rpath |-> <<>>, node |-> None]
    /\ origin = "none"
    /\ tres = NoCall

TarGlobInit == WalkIdle /\ InitTarGlob /\ ZipIdle /\ CPathIdle

SpecTarGlob == TarGlobInit /\ [][NextTar]_vars

\* the members of archives made against the current directory
\* (tar -czvf ../archive.tar.gz .), test_tar_dir_leading_dot
DotMembers ==
    { Dir(<<".">>),
      Dir(<<".", "/", "a">>),
      File(<<".", "/", "a", "/", "b">>),
      File(<<".", "/", "b">>) }

InitTarDot ==
    /\ members \in SeqsUpTo(DotMembers, MaxMembers)
    /\ tstatus = "closed"
    /\ nodes = <<>>
    /\ reads = 0
    /\ cur = [rpath |-> <<>>, node |-> None]
    /\ origin = "none"
    /\ tres = NoCall

TarDotInit == WalkIdle /\ InitTarDot /\ ZipIdle /\ CPathIdle

SpecTarDot == TarDotInit /\ [][NextTar]_vars

\* ------------------------------------------------------------------------
\* A client of ZipPath
\* ------------------------------------------------------------------------

\* the file name of the archive, and of another archive
ZipFile1 == <<"/", "a">>

ZipFile2 == <<"/", "b">>

\* the segments the client divides by
ZipSegments == { <<"a">>, <<"b">>, <<".">> }

\* the at values the client constructs paths with directly
RawAts ==
    { <<>>, <<"a">>, <<"a", "/">>, <<"a", "/", "b">>, <<"a", "/", "a">>, <<"h">> }

\* the paths the client compares with
OtherPaths ==
    {ZipPathOf(ZipFile1, at) : at \in {<<>>, <<"a">>, <<"a", "/">>, <<"a", "/", "b">>}}
    \cup {ZipPathOf(ZipFile2, at) : at \in {<<>>, <<"a">>}}

Bool(b) == IF b THEN "True" ELSE "False"

InitZip ==
    /\ znames \in SeqsUpTo(ZipNames, MaxZip)
    /\ zfile = TRUE
    /\ zstatus = "closed"
    /\ zcur = [file |-> <<>>, at |-> <<>>]
    /\ zres = NoCall

\* ZipPath(path) for an existing archive file, lines 23-33
ZipConstruct ==
    /\ zstatus = "closed"
    /\ zfile
    /\ zstatus' = "open"
    /\ zcur' = ZipPathOf(ZipFile1, <<>>)
    /\ zres' = NoCall
    /\ UNCHANGED <<znames, zfile>>
    /\ UNCHANGED <<walkVars, tarVars, cpathVars>>

\* ZipPath(path, at)
ZipConstructAt ==
    /\ zstatus = "open"
    /\ \E at \in RawAts : zcur' = ZipPathOf(ZipFile1, at)
    /\ zres' = NoCall
    /\ UNCHANGED <<znames, zfile, zstatus>>
    /\ UNCHANGED <<walkVars, tarVars, cpathVars>>

\* zcur / s
ZipDiv ==
    /\ zstatus = "open"
    /\ \E s \in ZipSegments :
         /\ Len(ZipDivide(znames, zcur, s).at) <= MaxAt
         /\ zcur' = ZipDivide(znames, zcur, s)
         /\ zres' = Call("div", s, "ok", <<>>)
    /\ UNCHANGED <<znames, zfile, zstatus>>
    /\ UNCHANGED <<walkVars, tarVars, cpathVars>>

\* the archive file is removed while the paths over it are still in use
ZipUnlink ==
    /\ zstatus = "open"
    /\ zfile
    /\ zfile' = FALSE
    /\ zres' = NoCall
    /\ UNCHANGED <<znames, zstatus, zcur>>
    /\ UNCHANGED <<walkVars, tarVars, cpathVars>>

\* zcur.exists()
ZipExists ==
    /\ zstatus = "open"
    /\ zres' = Call("exists", <<>>, "ok", Bool(ZipExistsOf(znames, zfile, zcur)))
    /\ UNCHANGED <<znames, zfile, zstatus, zcur>>
    /\ UNCHANGED <<walkVars, tarVars, cpathVars>>

\* list(zcur.iterdir())
ZipIterdir ==
    /\ zstatus = "open"
    /\ zres' = Call("iterdir", <<>>, "ok", ZipIterdirOf(znames, zcur))
    /\ UNCHANGED <<znames, zfile, zstatus, zcur>>
    /\ UNCHANGED <<walkVars, tarVars, cpathVars>>

\* the client moves on to one of the paths iterdir() gave it
ZipEnter ==
    /\ zstatus = "open"
    /\ zres.op = "iterdir"
    /\ \E i \in 1..Len(zres.val) : zcur' = zres.val[i]
    /\ zres' = NoCall
    /\ UNCHANGED <<znames, zfile, zstatus>>
    /\ UNCHANGED <<walkVars, tarVars, cpathVars>>

\* the client enumerates iterdir() recursively from the root
ZipListAll ==
    /\ zstatus = "open"
    /\ zcur.at = <<>>
    /\ zres' = Call("listall", <<>>, "ok", ZipListAllOf(znames, zcur))
    /\ UNCHANGED <<znames, zfile, zstatus, zcur>>
    /\ UNCHANGED <<walkVars, tarVars, cpathVars>>

\* zcur == b, zcur < b, hash(zcur) == hash(b) for an independently
\* constructed b
ZipCompare ==
    /\ zstatus = "open"
    /\ \E b \in OtherPaths :
         zres' = Call("compare", b, "ok",
                      [eq      |-> ZipEq(zcur, b),
                       lt      |-> ZipLt(zcur, b),
                       gt      |-> ZipLt(b, zcur),
                       hash_eq |-> ZipHash(zcur) = ZipHash(b)])
    /\ UNCHANGED <<znames, zfile, zstatus, zcur>>
    /\ UNCHANGED <<walkVars, tarVars, cpathVars>>

\* list(zcur.walk())
ZipWalk ==
    /\ zstatus = "open"
    /\ LET r == ZipWalkOf(znames, zcur)
       IN  zres' = Call("walk", <<>>, r.err, r.val)
    /\ UNCHANGED <<znames, zfile, zstatus, zcur>>
    /\ UNCHANGED <<walkVars, tarVars, cpathVars>>

\* the patterns the client searches with
ZipPatterns == { <<"*">>, <<"b">> }

\* list(zcur.rglob(glob)) and relative_to(zcur) of each path found
ZipRglob ==
    /\ zstatus = "open"
    /\ \E glob \in ZipPatterns :
         LET found == ZipRglobOf(znames, zcur, glob)
         IN  zres' = Call("rglob", glob, "ok",
                          [i \in 1..Len(found) |->
                             [path        |-> found[i],
                              relative_to |-> ZipRelativeTo(found[i], zcur)]])
    /\ UNCHANGED <<znames, zfile, zstatus, zcur>>
    /\ UNCHANGED <<walkVars, tarVars, cpathVars>>

NextZip ==
    \/ ZipConstruct \/ ZipConstructAt \/ ZipDiv \/ ZipUnlink \/ ZipExists
    \/ ZipIterdir \/ ZipEnter \/ ZipListAll \/ ZipCompare

ZipInit == WalkIdle /\ TarIdle /\ InitZip /\ CPathIdle

SpecZip == ZipInit /\ [][NextZip]_vars

\* a client that walks and searches the archive
NextZipWalk ==
    \/ ZipConstruct \/ ZipConstructAt \/ ZipDiv \/ ZipUnlink \/ ZipExists
    \/ ZipWalk \/ ZipRglob

SpecZipWalk == ZipInit /\ [][NextZipWalk]_vars

\* ------------------------------------------------------------------------
\* A client of the CPath facade
\* ------------------------------------------------------------------------

InitCPath ==
    /\ fs \in SUBSET FileNames
    /\ cobj = NoObj
    /\ cres = NoCall

\* CPath(name)
CPathNew ==
    /\ \E n \in FileNames :
          LET r == CPathNewOf(fs, n, <<>>)
          IN  /\ cobj' = r.obj
              /\ cres' = Call("CPath", n, r.err, r.obj.kind)
    /\ UNCHANGED fs
    /\ UNCHANGED <<walkVars, tarVars, zipVars>>

\* CPath(cobj), which is also CPath(*cobj.parts)
CPathWrap ==
    /\ cobj.kind # "none"
    /\ LET r == CPathNewOf(fs, cobj.name, RelParts(cobj))
       IN  /\ cobj' = r.obj
           /\ cres' = Call("CPath(obj)", cobj, r.err, r.obj.kind)
    /\ UNCHANGED fs
    /\ UNCHANGED <<walkVars, tarVars, zipVars>>

\* TarPath(name)
TarPathNew ==
    /\ \E n \in FileNames :
          LET r == TarPathNewOf(fs, n, <<>>)
          IN  /\ cobj' = r.obj
              /\ cres' = Call("TarPath", n, r.err, r.obj.kind)
    /\ UNCHANGED fs
    /\ UNCHANGED <<walkVars, tarVars, zipVars>>

\* TarPath(cobj), tar.py 57-60 for a TarPath and 69-79 for another path
TarPathWrap ==
    /\ cobj.kind \in {"TarPath", "CPath", "PosixPath"}
    /\ LET r == IF cobj.kind = "TarPath" THEN [err |-> "ok", obj |-> cobj]
                ELSE TarPathNewOf(fs, cobj.name, cobj.rpath)
       IN  /\ cobj' = r.obj
           /\ cres' = Call("TarPath(obj)", cobj, r.err, r.obj.kind)
    /\ UNCHANGED fs
    /\ UNCHANGED <<walkVars, tarVars, zipVars>>

\* cobj / s
CDiv ==
    /\ cobj.kind # "none"
    /\ \E s \in CSegments :
          /\ Len(RelParts(CDivide(cobj, s))) <= MaxSub
          /\ cobj' = CDivide(cobj, s)
          /\ cres' = Call("div", s, "ok", <<>>)
    /\ UNCHANGED fs
    /\ UNCHANGED <<walkVars, tarVars, zipVars>>

\* cobj.exists()
CExists ==
    /\ cobj.kind # "none"
    /\ cres' = Call("exists", <<>>, "ok", Bool(CExistsOf(fs, cobj)))
    /\ UNCHANGED <<fs, cobj>>
    /\ UNCHANGED <<walkVars, tarVars, zipVars>>

\* cobj.open(mode=mode) on the thin wrapper
CPathOpen ==
    /\ cobj.kind = "CPath"
    /\ \E mode \in CModes :
          LET r == CPathOpenOf(fs, cobj, <<>>, mode)
          IN  cres' = Call("open", mode, r.err, [via |-> r.via, stream |-> r.stream])
    /\ UNCHANGED <<fs, cobj>>
    /\ UNCHANGED <<walkVars, tarVars, zipVars>>

NextCPath ==
    \/ CPathNew \/ CPathWrap \/ TarPathNew \/ TarPathWrap
    \/ CDiv \/ CExists \/ CPathOpen

CPathInit == WalkIdle /\ TarIdle /\ ZipIdle /\ InitCPath

SpecCPath == CPathInit /\ [][NextCPath]_vars

\* ------------------------------------------------------------------------
\* A client of the dispatcher kopen and of CPath.open
\* ------------------------------------------------------------------------

\* the file names the client opens: one per codec, a plain file and the two
\* containers
KFileNames ==
    { <<"f">> \o ExtGz, <<"f">> \o ExtXz, <<"f">> \o ExtZst, <<"f">> \o ExtZstd,
      <<"f">> \o ExtLz4, <<"f">>, <<"f">> \o ExtZip, <<"f">> \o ExtTargz }

\* the modes the client passes; "None" stands for no mode given
KModes == {"None", "r", "rt", "rb", "w", "wb", "a"}

\* the positional arguments the client passes after the path
KArgs == { <<>>, << <<"a">> >>, << <<"z">> >>, << <<"a">>, <<"z">> >> }

\* the value a call to open leaves in cres
OpenVal(r) ==
    [via |-> r.via, stream |-> r.stream, writable |-> r.writable, created |-> r.created]

\* a call looks at no file but its own, so the directory starts empty or
\* with every file present
InitKopen ==
    /\ fs \in {{}, KFileNames}
    /\ cobj = NoObj
    /\ cres = NoCall

\* kopen(name, *args) and kopen(name, *args, mode=mode)
KopenCall ==
    /\ \E n \in KFileNames, args \in KArgs, mode \in KModes :
          LET r == Kopen(fs, n, <<>>, args, IF mode = "None" THEN "rt" ELSE mode)
          IN  /\ cres' = Call("kopen", [name |-> n, args |-> args, mode |-> mode],
                              r.err, OpenVal(r))
              /\ fs' = IF r.created THEN fs \cup {n} ELSE fs
    /\ UNCHANGED cobj
    /\ UNCHANGED <<walkVars, tarVars, zipVars>>

\* the positional arguments the client passes to CPath.open: none, or a
\* read mode as pathlib's open(mode) takes it
KPosModes == { <<>>, <<"r">>, <<"rt">>, <<"rb">> }

\* CPath(name).open(), CPath(name).open(mode=mode) and CPath(name).open(mode)
\* for a name that gives the thin wrapper
KCPathOpen ==
    /\ \E n \in KFileNames, args \in KPosModes, mode \in KModes :
          /\ CPathNewOf(fs, n, <<>>).obj.kind = "CPath"
          /\ LET o == CPathNewOf(fs, n, <<>>).obj
                 r == CPathOpenOf(fs, o, args, mode)
             IN  /\ cres' = Call("CPath.open", [name |-> n, args |-> args, mode |-> mode],
                                 r.err, OpenVal(r))
                 /\ fs' = IF r.created THEN fs \cup {n} ELSE fs
    /\ UNCHANGED cobj
    /\ UNCHANGED <<walkVars, tarVars, zipVars>>

NextKopen == KopenCall \/ KCPathOpen

KopenInit == WalkIdle /\ TarIdle /\ ZipIdle /\ InitKopen

SpecKopen == KopenInit /\ [][NextKopen]_vars

\* ------------------------------------------------------------------------
\* Properties of walk_paths
\* ------------------------------------------------------------------------

IsDirPath(p) == p # <<>> /\ p[Len(p)] = SEP

\* a member path without the trailing separator of a directory
Stripped(p) == IF IsDirPath(p) THEN SubSeq(p, 1, Len(p) - 1) ELSE p

\* the member path of the directory holding p, <<>> for the top level
ParentDir(p) == SubSeq(p, 1, LastSep(Stripped(p), SEP))

\* the last segment of a member path
NameOf(p) == SubSeq(Stripped(p), LastSep(Stripped(p), SEP) + 1, Len(Stripped(p)))

\* the directories above p, as roots (no trailing separator)
AncestorRoots(p) ==
    {SubSeq(p, 1, i - 1) : i \in {j \in 1..Len(Stripped(p)) : p[j] = SEP}}

\* the root r has an entry that is listed in some entry's dirs
IsDirectoryNode(r) ==
    \E e \in 1..Len(stack), k \in 1..Len(stack) :
        /\ stack[e].root = r
        /\ \E i \in 1..Len(stack[k].dirs) : stack[k].dirs[i][2] = e

BuildFinished == wstatus \in {"walking", "done"}

\* C1: for any flat member list, also one that does not list a file's
\* ancestor directories, the build completes without failure and every
\* ancestor of every member is present as a directory of the tree.
C1_ImplicitDirectories ==
    /\ wstatus # "AssertionError"
    /\ BuildFinished =>
         \A i \in 1..Len(paths) : \A r \in AncestorRoots(paths[i]) : IsDirectoryNode(r)

\* the entries of the tree below and including e
RECURSIVE Subtree(_, _)
Subtree(st, e) ==
    {e} \cup UNION {Subtree(st, st[e].dirs[i][2]) : i \in 1..Len(st[e].dirs)}

PrunedEntries == UNION {Subtree(stack, e) : e \in pruned}

EntriesOf(ts) == [i \in 1..Len(ts) |-> ts[i].entry]

NotPruned(e) == e \notin PrunedEntries

\* the visiting order of the walk nobody prunes, the pruned subtrees dropped
ExpectedVisits == SelectSeq(EntriesOf(WalkAll(stack)), NotPruned)

\* C2: once the consumer has removed d from a yielded dirs list, no triple
\* rooted at d or below d is yielded, and the other directories are visited
\* in the order of the unpruned walk.
C2_PruneSkipsSubtree ==
    BuildFinished =>
        /\ \A i \in 1..Len(yields) : \A e \in pruned :
              /\ yields[i].root # stack[e].root
              /\ ~StartsWith(yields[i].root, stack[e].root \o <<SEP>>)
        /\ IsPrefixSeq(EntriesOf(yields), ExpectedVisits)
        /\ wstatus = "done" => EntriesOf(yields) = ExpectedVisits

\* a finished walk in which a directory with a subdirectory was pruned and
\* a later sibling was still visited
C2_Witness ==
    /\ wstatus = "done"
    /\ \E e \in pruned : Cardinality(Subtree(stack, e)) >= 2
    /\ Len(yields) >= 2

\* sorted, no duplicates, every directory listed with its trailing separator
WellFormedSorted(ps) ==
    /\ \A i \in 1..(Len(ps) - 1) : StrLess(ps[i], ps[i + 1])
    /\ \A i \in 1..Len(ps) : ParentDir(ps[i]) = <<>> \/ ParentDir(ps[i]) \in SeqToSet(ps)

RefRoot(D) == IF D = <<>> THEN RootName ELSE Stripped(D)

RefDirs(M, D) == {NameOf(p) : p \in {q \in M : IsDirPath(q) /\ ParentDir(q) = D}}

RefFiles(M, D) == {NameOf(p) : p \in {q \in M : ~IsDirPath(q) /\ ParentDir(q) = D}}

\* the reference top-down directory walk over the member set M, names sorted
\* (test_walk_paths_against_stdlib, utils.py 124-129)
RECURSIVE RefWalk(_, _)
RefWalk(M, D) ==
    LET ds == SortedSeqOfSet(RefDirs(M, D))
    IN  <<[root  |-> RefRoot(D),
           dirs  |-> ds,
           files |-> SortedSeqOfSet(RefFiles(M, D))]>>
        \o Flatten([i \in 1..Len(ds) |-> RefWalk(M, D \o ds[i] \o <<SEP>>)])

TriplesOf(ts) ==
    [i \in 1..Len(ts) |-> [root |-> ts[i].root, dirs |-> ts[i].dirs, files |-> ts[i].files]]

\* how often the member p is listed in the yielded triples
MemberHits(p) ==
    Cardinality({ij \in (1..Len(yields)) \X (1..MaxLen) :
        LET t == yields[ij[1]]
            l == IF IsDirPath(p) THEN t.dirs ELSE t.files
        IN  /\ t.root = RefRoot(ParentDir(p))
            /\ ij[2] <= Len(l)
            /\ l[ij[2]] = NameOf(p)})

\* C3: for a sorted member list that lists every directory, walk_paths
\* yields the triples of the reference top-down walk with sorted names, one
\* per directory, and lists every member exactly once; the empty list gives
\* exactly the root triple.
C3_WalkMatchesReference ==
    WellFormedSorted(paths) =>
        /\ wstatus # "AssertionError"
        /\ (wstatus = "done" /\ pruned = {}) =>
              /\ TriplesOf(yields) = RefWalk(SeqToSet(paths), <<>>)
              /\ \A i \in 1..Len(paths) : MemberHits(paths[i]) = 1
              /\ paths = <<>> => TriplesOf(yields) =
                                   <<[root |-> RootName, dirs |-> <<>>, files |-> <<>>]>>

\* a finished unpruned walk of a sorted list whose order differs from the
\* name order of the directories, with a nested directory
C3_Witness ==
    /\ wstatus = "done"
    /\ pruned = {}
    /\ WellFormedSorted(paths)
    /\ Len(yields) >= 3
    /\ \E i \in 1..Len(yields) :
          /\ Len(yields[i].dirs) >= 2
          /\ yields[i].dirs # DirNames_Unsorted(stack[yields[i].entry])

\* the walk of the empty list
C3_WitnessEmpty == wstatus = "done" /\ paths = <<>>

\* no member listed twice, every directory listed with its trailing
\* separator, in any order
WellFormedAnyOrder(ps) ==
    /\ \A i, j \in 1..Len(ps) : i # j => ps[i] # ps[j]
    /\ \A i \in 1..Len(ps) : ParentDir(ps[i]) = <<>> \/ ParentDir(ps[i]) \in SeqToSet(ps)

\* the triples walk_paths yields for the sorted list of the same members
SortedTriples(ps) ==
    TriplesOf(WalkAll(Build(SortedSeqOfSet(SeqToSet(ps)), SEP).stack))

\* C15: for every permutation of a set of member paths that lists each
\* directory once, walk_paths completes without an assertion failure and
\* yields the same triples as for the sorted list.
C15_AnyPermutation ==
    WellFormedAnyOrder(paths) =>
        /\ wstatus # "AssertionError"
        /\ (wstatus = "done" /\ pruned = {}) => TriplesOf(yields) = SortedTriples(paths)

\* ------------------------------------------------------------------------
\* Properties of TarPath
\* ------------------------------------------------------------------------

\* the relative path of cur is not a key of the index
NotInIndex == ~HasKey(nodes, JoinSep(cur.rpath))

Failed(call) == call.err # "ok"

\* C7: division never fails and never re-reads the container; on a path
\* obtained by division whose relative path is not in the index, exists() is
\* false, name and further division work, and is_file(), is_dir(),
\* iterdir() and open() fail with an error.
C7_MissingPathFailsCleanly ==
    tstatus = "open" =>
        /\ reads = 1
        /\ tres.op = "div" => ~Failed(tres)
        /\ (origin = "div" /\ NotInIndex) =>
              /\ tres.op = "exists" => tres.val = "False"
              /\ tres.op = "name" =>
                    /\ ~Failed(tres)
                    /\ cur.rpath # <<>> => tres.val = cur.rpath[Len(cur.rpath)]
              /\ tres.op \in {"is_file", "is_dir", "iterdir", "open"} => Failed(tres)

\* is_file() was called on a path two divisions away that is not in the index
C7_Witness ==
    /\ tstatus = "open"
    /\ origin = "div"
    /\ NotInIndex
    /\ Len(cur.rpath) >= 2
    /\ tres.op = "is_file"
    /\ tres.err = "AssertionError"

\* C8: open(mode) on a path that resolves to a directory fails with an
\* error for every mode; it never returns a stream or None.
C8_OpenDirectoryFails ==
    (/\ tstatus = "open"
     /\ tres.op = "open"
     /\ TarExistsOf(cur)
     /\ TarIsDirOf(nodes, cur) = "True") => Failed(tres)

\* the relative paths found by the recursive enumeration
ListedKeys == [i \in 1..Len(tres.val) |-> JoinSep(tres.val[i].rpath)]

\* the relative path of the i-th member of the archive
MemberKey(i) == JoinSep(PartsOf(members[i].name))

\* the tar half of C4: constructing the path over the archive succeeds and the
\* recursive enumeration of iterdir() from the root finds every member
\* exactly once, under its relative path in the archive.
C4_TarRoundTrip ==
    /\ tstatus # "AssertionError"
    /\ tres.op = "listall" =>
          /\ \A i \in 1..Len(members) :
                PartsOf(members[i].name) # <<>> => Count(ListedKeys, MemberKey(i)) = 1
          /\ \A k \in SeqToSet(ListedKeys) : \E i \in 1..Len(members) : MemberKey(i) = k

\* the parts of the directory a member lies in
MemberParent(i) ==
    LET ps == PartsOf(members[i].name) IN SubSeq(ps, 1, Len(ps) - 1)

\* the positions, in the archive, of the members lying directly in cur
RECURSIVE ChildMembers(_)
ChildMembers(i) ==
    IF i > Len(members) THEN <<>>
    ELSE (IF PartsOf(members[i].name) # <<>> /\ MemberParent(i) = cur.rpath
          THEN <<i>> ELSE <<>>) \o ChildMembers(i + 1)

\* the relative paths of the members lying directly in cur, in the order
\* in which the archive lists them
InsertionOrder ==
    LET cm == ChildMembers(1) IN [k \in 1..Len(cm) |-> MemberKey(cm[k])]

IterdirDone == tstatus = "open" /\ tres.op = "iterdir" /\ tres.err = "ok"

\* is the i-th listed child a directory
ListedIsDir(i) == NodeOf(nodes, tres.val[i].node).info.isdir

GlobKeys == [i \in 1..Len(tres.val) |-> tres.val[i].node]

IndexKeys == {nodes[i].key : i \in 1..Len(nodes)}

\* the keys that have the relative path of cur as a prefix
KeysUnderCur == {k \in IndexKeys : StartsWith(k, GlobPrefix(cur))}

\* what is left of such a key after the relative path of cur
Remainder(k) == SubSeq(k, Len(GlobPrefix(cur)) + 1, Len(k))

IsLiteral(pattern) == \A i \in 1..Len(pattern) : pattern[i] \notin {"*", "?", "["}

\* glob yields exactly the entries under cur whose remainder matches
GlobExact ==
    (tstatus = "open" /\ tres.op = "glob") =>
        /\ SeqToSet(GlobKeys) = {k \in KeysUnderCur : FnMatch(Remainder(k), tres.arg)}
        /\ \A i, j \in 1..Len(tres.val) : i # j => GlobKeys[i] # GlobKeys[j]

\* nothing is yielded from outside the subtree of cur, nor from a file
GlobInside ==
    (tstatus = "open" /\ tres.op \in {"glob", "rglob"}) =>
        /\ \A i \in 1..Len(tres.val) : IsPrefixSeq(cur.rpath, tres.val[i].rpath)
        /\ (TarExistsOf(cur) /\ TarIsFileOf(nodes, cur) = "True") => tres.val = <<>>

\* rglob of a literal name yields exactly the entries below cur with that
\* last segment
RglobLiteral ==
    (tstatus = "open" /\ tres.op = "rglob" /\ IsLiteral(tres.arg)) =>
        SeqToSet(GlobKeys) =
            {k \in KeysUnderCur \ {RootName} :
                NodeName(NodeOf(nodes, k)) = tres.arg}

\* C16: glob(pattern) on a path with relative path R yields exactly the
\* index entries that have R as a prefix and whose remainder matches the
\* pattern, nothing outside the subtree of R and nothing when R is a file;
\* rglob(name) with a literal name yields exactly the entries below R whose
\* last segment is name.
C16_GlobRglob == GlobExact /\ GlobInside /\ RglobLiteral

\* a member name without its leading './'
UndotName(n) == IF StartsWith(n, <<".", "/">>) THEN SubSeq(n, 3, Len(n)) ELSE n

NotDotItself(m) == m.name # <<".">>

\* the archive with the same members, named without the leading './' and
\* without the member '.'
PlainMembers ==
    LET kept == SelectSeq(members, NotDotItself)
    IN  [i \in 1..Len(kept) |->
           [name |-> UndotName(kept[i].name), isdir |-> kept[i].isdir]]

Plain == MakeArgs(PlainMembers)

\* the same keys in the same order, with the same kinds, names and children
SameTree(ns, ps) ==
    /\ Len(ns) = Len(ps)
    /\ \A i \in 1..Len(ns) :
          /\ ns[i].key = ps[i].key
          /\ ns[i].children = ps[i].children
          /\ ns[i].info.isdir = ps[i].info.isdir
          /\ NodeName(ns[i]) = NodeName(ps[i])

\* C19: an archive whose members are named './', './a/', './a/f', ... gives
\* the same index keys, the same tree and the same results of division,
\* exists(), iterdir() and glob() as the archive of the members 'a/', 'a/f',
\* ...: the member '.' is skipped and a leading './' is stripped.
C19_LeadingDotEquivalence ==
    /\ tstatus # "closed" => (tstatus = "open" <=> Plain.status = "ok")
    /\ tstatus = "open" =>
          /\ SameTree(nodes, Plain.nodes)
          /\ origin = "root" => cur = TarPathOf(Plain.nodes, <<>>, RootName)
          /\ origin = "div" => cur = TarPathOf(Plain.nodes, cur.rpath, None)
          /\ tres.op = "exists" =>
                tres.val = (IF TarExistsOf(TarPathOf(Plain.nodes, cur.rpath, cur.node))
                            THEN "True" ELSE "False")
          /\ tres.op = "iterdir" =>
                LET r == TarIterdirOf(Plain.nodes, cur)
                IN  tres.err = r.err /\ tres.val = r.val
          /\ tres.op = "glob" => tres.val = TarGlobOf(Plain.nodes, cur, tres.arg)

\* a glob has found entries below the directory of an archive whose
\* members carry the leading './' and that lists '.' itself
C19_Witness ==
    /\ tstatus = "open"
    /\ \E i \in 1..Len(members) : members[i].name = <<".">>
    /\ \E i \in 1..Len(members) : StartsWith(members[i].name, <<".", "/", "a", "/">>)
    /\ tres.op = "glob"
    /\ cur.rpath # <<>>
    /\ tres.val # <<>>

\* the path the constructor returns for the archive
TarRoot == TarPathOf(nodes, <<>>, RootName)

\* the paths that compare equal to cur (the same relative path in the same
\* container), as the constructor, iterdir(), glob() and division give them
EqualPaths ==
    LET listed == TarListAllOf(nodes, TarRoot)
        globbed == TarGlobOf(nodes, TarRoot, <<"*">>)
    IN  {q \in {TarRoot, TarPathOf(nodes, cur.rpath, None)}
                \cup SeqToSet(listed) \cup SeqToSet(globbed) :
            q.rpath = cur.rpath}

\* C20: paths over the same container that compare equal answer exists()
\* alike, however they were obtained: by the constructor, by iterdir(), by
\* glob() or by division, a division that leads back to the root included.
C20_ExistsByLocation ==
    (tstatus = "open" /\ tres.op = "exists") =>
        \A q \in EqualPaths : TarExistsOf(q) <=> tres.val = "True"

\* ------------------------------------------------------------------------
\* Properties of ZipPath
\* ------------------------------------------------------------------------

\* lexicographic order of the pairs (container file path, relative path)
PairLess(a, b) ==
    \/ PartsLess(Filepath(a), Filepath(b))
    \/ Filepath(a) = Filepath(b) /\ PartsLess(Subpath(a), Subpath(b))

\* the same container file and the same segments below its root
SameLocation(a, b) == a.file = b.file /\ PartsOf(a.at) = PartsOf(b.at)

\* C5: a == b iff the (container file path, relative path) pairs are equal,
\* however the two paths were constructed; equal paths have equal hashes;
\* < is a strict total order that agrees with the lexicographic order of
\* the pairs.
C5_OrderEqHash ==
    zres.op = "compare" =>
        LET b == zres.arg
            r == zres.val
        IN  /\ r.eq <=> SameLocation(zcur, b)
            /\ r.eq => r.hash_eq
            /\ r.lt <=> PairLess(zcur, b)
            /\ ~ZipLt(zcur, zcur)
            /\ (r.lt /\ ~r.eq /\ ~r.gt) \/ (~r.lt /\ r.eq /\ ~r.gt) \/ (~r.lt /\ ~r.eq /\ r.gt)
            /\ \A c \in OtherPaths : (r.lt /\ ZipLt(b, c)) => ZipLt(zcur, c)

\* a path obtained by division is compared with an independently
\* constructed path of the same location whose at differs
C5_Witness ==
    /\ zres.op = "compare"
    /\ zres.val.eq
    /\ zcur.at = <<"a", "/">>
    /\ zres.arg.at = <<"a">>

\* an ordered pair of paths over different containers was compared
C5_WitnessLt ==
    /\ zres.op = "compare"
    /\ zres.val.lt
    /\ zres.arg.file # zcur.file

\* p is a member of the archive
IsMemberName(p) == p \in SeqToSet(znames)

\* d names a directory: listed, or a leading part of a member's name
IsDirectoryName(d) == IsDirAt(d) /\ \E i \in 1..Len(znames) : StartsWith(znames[i], d)

C6_WitnessRoot ==
    /\ zres.op = "exists"
    /\ zcur.at = <<>>
    /\ ~zfile
    /\ zres.val = "False"

\* the relative paths found by the recursive enumeration of a zip
ZipListed == [i \in 1..Len(zres.val) |-> ZipRelativeTo(zres.val[i], zcur).val]

\* the zip half of C4: for an archive without repeated names the recursive
\* enumeration of iterdir() from the root finds every member exactly once,
\* under its relative path in the archive, and besides the members only
\* the directories they imply.
C4_ZipRoundTrip ==
    (zres.op = "listall" /\ \A n \in SeqToSet(znames) : Count(znames, n) = 1) =>
        /\ \A i \in 1..Len(znames) : Count(ZipListed, PartsOf(znames[i])) = 1
        /\ \A i \in 1..Len(zres.val) :
              /\ ZipRelativeTo(zres.val[i], zcur).err = "ok"
              /\ IsMemberName(zres.val[i].at) \/ IsDirectoryName(zres.val[i].at)

\* C4: for a tar or zip container, enumerating iterdir() recursively from
\* the root reaches every member exactly once, and the path of each found
\* entry relative to the root is the member's relative path in the archive.
C4_RoundTrip == C4_TarRoundTrip /\ C4_ZipRoundTrip

ZExists(p) == ZipExistsOf(znames, zfile, p)

WalkDone == zstatus = "open" /\ zres.op = "walk"

\* C17: every triple (r, dirs, files) of a walk started at an existing path
\* has an existing r at or below the start and existing r / d and r / f for
\* every d of dirs and f of files; the walk of an empty archive yields
\* exactly the triple (root, [], []).
C17_WalkTriplesExist ==
    /\ (WalkDone /\ ZExists(zcur)) =>
          /\ zres.err = "ok"
          /\ \A i \in 1..Len(zres.val) :
                LET t == zres.val[i]
                IN  /\ ZExists(t.r)
                    /\ Filepath(t.r) = Filepath(zcur)
                    /\ IsPrefixSeq(Subpath(zcur), Subpath(t.r))
                    /\ \A j \in 1..Len(t.dirs) : ZExists(ZipDivide(znames, t.r, t.dirs[j]))
                    /\ \A j \in 1..Len(t.files) : ZExists(ZipDivide(znames, t.r, t.files[j]))
    /\ (WalkDone /\ znames = <<>> /\ zcur.at = <<>>) =>
          zres.val = <<[r |-> zcur, dirs |-> <<>>, files |-> <<>>]>>

RglobDone == zstatus = "open" /\ zres.op = "rglob"

\* C18: every path rglob yields on a receiver P belongs to the container of
\* P and lies at or below P, so that relative_to(P) is defined for it; a
\* member whose name only shares a string prefix with the relative path of
\* P is never yielded.
C18_RglobStaysBelow ==
    RglobDone =>
        \A i \in 1..Len(zres.val) :
            LET f == zres.val[i]
            IN  /\ Filepath(f.path) = Filepath(zcur)
                /\ IsPrefixSeq(Subpath(zcur), Subpath(f.path))
                /\ f.relative_to.err = "ok"

\* ------------------------------------------------------------------------
\* Properties of the CPath facade
\* ------------------------------------------------------------------------

\* a name with the suffix of a zip or of a tar container
IsContainerName(n) == EndsWith(n, ExtZip) \/ EndsWith(n, ExtTargz)

\* C9: constructing CPath or TarPath for a name with the suffix .zip or
\* .tar.gz whose file does not exist succeeds without raising, and exists()
\* on the result and on every path derived from it by division returns
\* false and does not raise.
C9_MissingContainer ==
    /\ (cres.op \in {"CPath", "TarPath"} /\ IsContainerName(cres.arg) /\ cres.arg \notin fs)
          => ~Failed(cres)
    /\ (cres.op \in {"div", "exists"} /\ IsContainerName(cobj.name) /\ cobj.name \notin fs)
          => ~Failed(cres)
    /\ (cres.op = "exists" /\ IsContainerName(cobj.name) /\ cobj.name \notin fs)
          => cres.val = "False"

\* C10: CPath(name) gives a ZipPath for a name ending in .zip, a TarPath
\* for a name ending in .tar.gz of an existing file and the thin wrapper,
\* whose open() goes through kopen, for every other name; CPath of a
\* ZipPath or of a TarPath, or of its parts, gives the same kind.
C10_SuffixDispatch ==
    /\ (cres.op = "CPath" /\ ~Failed(cres)) =>
          /\ EndsWith(cres.arg, ExtZip) => cres.val = "ZipPath"
          /\ (EndsWith(cres.arg, ExtTargz) /\ cres.arg \in fs) => cres.val = "TarPath"
          /\ ~IsContainerName(cres.arg) => cres.val = "CPath"
    /\ (cres.op = "CPath(obj)" /\ cres.arg.kind \in {"ZipPath", "TarPath"}) =>
          (~Failed(cres) /\ cres.val = cres.arg.kind)
    /\ (cres.op = "open" /\ cobj.kind = "CPath") =>
          cres.val.via = CPathOpenOf(fs, cobj, <<>>, cres.arg).via

\* ------------------------------------------------------------------------
\* Properties of kopen and CPath.open
\* ------------------------------------------------------------------------

\* the last call opened a path, through kopen or through the wrapper
OpenCalled == cres.op \in {"kopen", "CPath.open"}

\* a name with the suffix of a single-stream codec
IsCodecName(n) ==
    \/ EndsWith(n, ExtGz) /\ ~EndsWith(n, ExtTargz)
    \/ EndsWith(n, ExtXz) \/ EndsWith(n, ExtZst) \/ EndsWith(n, ExtZstd)
    \/ EndsWith(n, ExtLz4)

ReadModes == {"None", "r", "rt", "rb"}

\* C11: for every single-stream codec and every read mode, opening an
\* existing file gives a text stream when the mode is textual (none, 'r',
\* 'rt') and a byte stream when it is 'rb', whatever the codec.
C11_StreamKindByMode ==
    (/\ OpenCalled
     /\ IsCodecName(cres.arg.name)
     /\ cres.arg.name \in fs
     /\ cres.arg.args = <<>>
     /\ cres.arg.mode \in ReadModes) =>
        /\ ~Failed(cres)
        /\ cres.val.stream = IF cres.arg.mode = "rb" THEN "bytes stream" ELSE "text stream"

\* C12: every open with a mode that writes or appends is rejected with an
\* error, creates no file and returns no writable stream.
C12_WriteModesRejected ==
    (OpenCalled /\ cres.arg.mode \in WriteModes) =>
        /\ Failed(cres)
        /\ ~cres.val.created
        /\ ~cres.val.writable

NamesFileMember(n, args) ==
    /\ Len(args) = 1
    /\ IF EndsWith(n, ExtZip)
       THEN \E i \in 1..Len(CZipNames) : CZipNames[i] = args[1] /\ ~IsDirAt(args[1])
       ELSE \E i \in 1..Len(CTarMembers) :
               CTarMembers[i].name = args[1] /\ ~CTarMembers[i].isdir

ByKeyword(m) ==
    CPathOpenOf(fs, CPathNewOf(fs, cres.arg.name, <<>>).obj, <<>>, m)

\* C21: CPath.open(m) with the mode given positionally does what
\* CPath.open(mode=m) does: the same error or the same stream, a byte
\* stream for a binary mode and a text stream for a text mode.
C21_PositionalMode ==
    (/\ cres.op = "CPath.open"
     /\ Len(cres.arg.args) = 1
     /\ cres.arg.mode = "None") =>
        LET m == cres.arg.args[1]
            k == ByKeyword(m)
        IN  /\ cres.err = k.err
            /\ cres.val = OpenVal(k)
            /\ cres.err = "ok" =>
                  cres.val.stream = (IF m \in BinaryModes THEN "bytes stream"
                                     ELSE "text stream")

====
